---- MODULE Spec2Model ----
(***************************************************************************)
(* A model of the StartDuck AI client library (src/startduckai.py):        *)
(* the message value objects, the webhook reply parser, and the blocking   *)
(* (SyncAPI) and suspending (AsyncAPI) send_messages operations.           *)
(*                                                                         *)
(* Python values are represented as follows.  A dict is a function whose   *)
(* DOMAIN is the set of keys present.  An optional value (a response not   *)
(* yet received, an exception not raised) is a set that is empty or a      *)
(* singleton.  A string built by concatenation (an f-string) is the        *)
(* sequence of its parts.                                                  *)
(*                                                                         *)
(* The module is taken as imported: its annotations (str[MessageRole]) are *)
(* evaluated lazily, as the interpreters that accept its nested f-string   *)
(* quotes and defer annotations do.                                        *)
(***************************************************************************)
EXTENDS Integers, Sequences, FiniteSets, TLC

VARIABLES
    config,     \* the client's configuration, set by SyncAPI.__init__
    pc,         \* pc[c]: where call c of send_messages stands
    api,        \* api[c]: the surface call c was made on ("sync" / "async")
    input,      \* input[c]: the arguments of call c and the server's behaviour
    resp,       \* resp[c]: the HTTP response call c received, if any
    raised,     \* raised[c]: the exception propagating out of call c's async-with blocks
    outcome,    \* outcome[c]: what call c reported to its caller, once it ended
    posts,      \* posts[c]: the number of POST requests call c issued
    requests,   \* the requests on the wire: [call, url, json]
    session,    \* session[c]: the aiohttp.ClientSession call c created (0: none)
    sessions,   \* the ClientSessions that are open
    created,    \* the number of ClientSessions created so far
    msg,        \* the last message construction: arguments and result
    parsed      \* the last parse_reply call: argument and result

vars == <<config, pc, api, input, resp, raised, outcome, posts, requests,
          session, sessions, created, msg, parsed>>

sendVars == <<config, pc, api, input, resp, raised, outcome, posts, requests,
              session, sessions, created>>

Range(s) == {s[i] : i \in DOMAIN s}

EmptyDict == <<>>

(***************************************************************************)
(* Results of an operation: a normal return, or an exception of some class *)
(* carrying its message (args[0]) as a sequence of string parts.           *)
(***************************************************************************)
Return == [kind |-> "return", ctx |-> <<>>]

Raise(kind, ctx) == [kind |-> kind, ctx |-> ctx]

(***************************************************************************)
(*                           Message structs                               *)
(***************************************************************************)
MessageClasses ==
    {"TextMessage", "VoiceMessage", "ImageMessage", "StickerMessage",
     "AudioMessage", "VideoMessage", "DocumentMessage"}

\* The class attribute `type` of each message class.
ClassType(cls) ==
    CASE cls = "TextMessage"     -> "text"
      [] cls = "VoiceMessage"    -> "voice"
      [] cls = "ImageMessage"    -> "image"
      [] cls = "StickerMessage"  -> "sticker"
      [] cls = "AudioMessage"    -> "audio"
      [] cls = "VideoMessage"    -> "video"
      [] cls = "DocumentMessage" -> "document"

\* The class attribute `mime` of each message class.
ClassMime(cls) ==
    CASE cls = "TextMessage"     -> <<"text/plain">>
      [] cls = "VoiceMessage"    -> <<"audio/wav", "audio/mpeg", "audio/mp4", "audio/ogg">>
      [] cls = "ImageMessage"    -> <<"image/bmp", "image/png", "image/jpeg", "image/gif",
                                      "image/webp">>
      [] cls = "StickerMessage"  -> <<"image/bmp", "image/png", "image/jpeg", "image/gif",
                                      "image/webp", "sticker/lottie">>
      [] cls = "AudioMessage"    -> <<"audio/wav", "audio/mpeg", "audio/mp4", "audio/ogg">>
      [] cls = "VideoMessage"    -> <<"video/mp4", "video/webm">>
      [] cls = "DocumentMessage" -> <<"text/plain", "application/pdf", "application/msword",
                                      "application/mswordx", "application/ppt",
                                      "application/pptx">>

\* The names a message class defines (MessageBase and its subclasses).
ClassAttrs == {"type", "mime", "__init__", "serialize"}

\* The names __init__ has set on the instance when it validates the mimetype.
InstanceAttrs == {"data", "mime"}

\* Attribute lookup on a message instance: the instance's names, then the class's.
HasAttr(name) == name \in InstanceAttrs \cup ClassAttrs

\* The mimetype spellings the model constructs messages with.
MimeInputs ==
    {"audio/wav", "AUDIO/WAV", "audio/ogg", "image/png", "Image/PNG", "image/webp",
     "sticker/lottie", "video/mp4", "Video/WebM", "text/plain", "application/pdf",
     "APPLICATION/PPTX", "application/zip", "audio/flac", ""}

\* str.lower() on the spellings of MimeInputs.
Lower(s) ==
    CASE s = "AUDIO/WAV"        -> "audio/wav"
      [] s = "Image/PNG"        -> "image/png"
      [] s = "Video/WebM"       -> "video/webm"
      [] s = "APPLICATION/PPTX" -> "application/pptx"
      [] OTHER                  -> s

DataInputs == {"hello", "https://cdn/file", ""}

\* MessageBase.__init__: the result of cls(data, mime).  The instance is
\* handed to the caller only when __init__ raises nothing.
MessageBase_init(cls, data, mime) ==
    LET self == [cls |-> cls, data |-> data, mime |-> mime] IN
    IF ~HasAttr("mimetypes")
    THEN [exc |-> {Raise("AttributeError", <<"object has no attribute mimetypes">>)},
          obj |-> {}]
    ELSE IF Lower(mime) \notin Range(ClassMime(cls))
    THEN [exc |-> {Raise("InvalidMimeType", <<"Bad message content mimetype.">>)},
          obj |-> {}]
    ELSE [exc |-> {}, obj |-> {self}]

\* TextMessage.__init__: self.mime is still the class attribute here.
TextMessage_init(text) == MessageBase_init("TextMessage", text, ClassMime("TextMessage")[1])

\* MessageBase.serialize
serialize(self) ==
    [type |-> ClassType(self.cls), mime |-> self.mime, data |-> self.data]

NoMsg == [cls |-> "", data |-> "", mime |-> "", exc |-> {}, obj |-> {}, serialized |-> {}]

\* cls(data, mime).serialize() for the six classes that take a mimetype.
NewMessage(cls, data, mime) ==
    LET r == MessageBase_init(cls, data, mime) IN
    /\ msg' = [cls |-> cls, data |-> data, mime |-> mime, exc |-> r.exc, obj |-> r.obj,
               serialized |-> {serialize(o) : o \in r.obj}]
    /\ UNCHANGED <<sendVars, parsed>>

\* TextMessage(text).serialize()
NewTextMessage(text) ==
    LET r == TextMessage_init(text) IN
    /\ msg' = [cls |-> "TextMessage", data |-> text, mime |-> "", exc |-> r.exc,
               obj |-> r.obj, serialized |-> {serialize(o) : o \in r.obj}]
    /\ UNCHANGED <<sendVars, parsed>>

(***************************************************************************)
(*                             Reply struct                                *)
(***************************************************************************)
PyNone == [t |-> "None"]

JStr(s) == [t |-> "str", v |-> s]

JDict(d) == [t |-> "dict", v |-> d]

\* The dicts that hold key k with a value of V, or do not hold it.
Opt(k, V) == {EmptyDict} \cup {k :> v : v \in V}

ReplyTexts == {"hi", "**hi**"}

ReplyIds == {JStr("c1")}

ReplyMetadata == {JDict("order" :> "42"), PyNone}

\* The `answer` values of webhook bodies: objects holding any of the three
\* texts, and values that are not objects.
AnswerInputs ==
    {JDict(t @@ f @@ m) : t \in Opt("text", ReplyTexts), f \in Opt("fbmd", ReplyTexts),
                          m \in Opt("mdv2", ReplyTexts)}
      \cup {JStr("hi"), PyNone}

\* The webhook bodies parse_reply is given.
BodyInputs ==
    {a @@ b @@ c @@ m : a \in Opt("answer", AnswerInputs),
                        b \in Opt("chatbot_uuid", ReplyIds),
                        c \in Opt("client_id", ReplyIds),
                        m \in Opt("metadata", ReplyMetadata)}

\* ReplyMessage.__init__
ReplyMessage(text, text_markdown, text_markdown_v2, chatbot_uuid, client_id, metadata) ==
    [text |-> text, text_markdown |-> text_markdown,
     text_markdown_v2 |-> text_markdown_v2, chatbot_uuid |-> chatbot_uuid,
     client_id |-> client_id, metadata |-> metadata]

\* packed[key][sub]: the exception the subscription raises, if any.
Subscript2(packed, key, sub) ==
    IF key \notin DOMAIN packed THEN {Raise("KeyError", <<key>>)}
    ELSE IF packed[key].t # "dict" THEN {Raise("TypeError", <<"not subscriptable by str">>)}
    ELSE IF sub \notin DOMAIN packed[key].v THEN {Raise("KeyError", <<sub>>)}
    ELSE {}

\* packed[key]
Subscript1(packed, key) ==
    IF key \notin DOMAIN packed THEN {Raise("KeyError", <<key>>)} ELSE {}

\* The first exception among the argument expressions, in evaluation order.
FirstRaised(excs) ==
    LET hit == {i \in DOMAIN excs : excs[i] # {}} IN
    IF hit = {} THEN {}
    ELSE excs[CHOOSE i \in hit : \A j \in hit : i <= j]

\* ReplyMessage.deserialize
deserialize(packed) ==
    LET exc == FirstRaised(<<Subscript2(packed, "answer", "text"),
                             Subscript2(packed, "answer", "fbmd"),
                             Subscript2(packed, "answer", "mdv2"),
                             Subscript1(packed, "chatbot_uuid"),
                             Subscript1(packed, "client_id")>>) IN
    IF exc # {} THEN [exc |-> exc, reply |-> {}]
    ELSE [exc |-> {},
          reply |-> {ReplyMessage(packed["answer"].v["text"],
                                  packed["answer"].v["fbmd"],
                                  packed["answer"].v["mdv2"],
                                  packed["chatbot_uuid"],
                                  packed["client_id"],
                                  IF "metadata" \in DOMAIN packed
                                  THEN packed["metadata"] ELSE PyNone)}]

\* The text of parse_reply's BadResponse (the package name is back-quoted in the source).
BadResponseText ==
    "The API returned an unexpected response. Perhaps the startduckai package is outdated."

\* parse_reply without its except clause: the KeyError reaches the caller.
parse_reply_uncaught(response_json) == deserialize(response_json)

\* SyncAPI.parse_reply: a KeyError of deserialize becomes BadResponse.
parse_reply(response_json) ==
    LET r == deserialize(response_json) IN
    IF \E e \in r.exc : e.kind = "KeyError"
    THEN [exc |-> {Raise("BadResponse", <<BadResponseText>>)},
          reply |-> {}]
    ELSE r

NoParse == [called |-> FALSE, body |-> EmptyDict, exc |-> {}, reply |-> {}]

ParseReply(body) ==
    LET r == parse_reply(body) IN
    /\ parsed' = [called |-> TRUE, body |-> body, exc |-> r.exc, reply |-> r.reply]
    /\ UNCHANGED <<sendVars, msg>>

(***************************************************************************)
(*                          SyncAPI / AsyncAPI                             *)
(***************************************************************************)
DEFAULT_API_URL == "https://bigduck.ai"

DEFAULT_API_TIMEOUT == 240

HTTP_OK == 200

\* The number of concurrent send_messages calls of the concurrent runs.
MaxCalls == 2

\* The longest message list a call is given.
MaxMsgs == 1

CallIds == 1 .. MaxCalls

\* The two calls of a side-by-side run.
SideBySide == {1, 2}

\* SyncAPI.__init__: the configurations a client is constructed with.
DefaultConfig ==
    [api_url |-> DEFAULT_API_URL, api_key |-> "key", chatbot_uuid |-> "bot",
     webhook |-> "https://me/hook", timeout |-> DEFAULT_API_TIMEOUT]

Configs ==
    {DefaultConfig,
     [api_url |-> "https://alt.example", api_key |-> "key2", chatbot_uuid |-> "bot",
      webhook |-> "https://me/hook", timeout |-> 5]}

\* The message objects callers put in a list: anything with serialize().
MessageObjs ==
    {[cls |-> "TextMessage", data |-> "hello", mime |-> "text/plain"],
     [cls |-> "ImageMessage", data |-> "https://cdn/file", mime |-> "image/png"]}

MessageLists == UNION {[1 .. n -> MessageObjs] : n \in 0 .. MaxMsgs}

MetadataInputs == {PyNone, JDict("order" :> "42")}

NamedCodes ==
    {"no_reply", "in_process", "chatbot_not_active", "chatbot_not_found",
     "chatbot_not_trained", "bad_request", "access_denied", "rpd_limit_reached",
     "spam_block"}

ServerMessages == {"m", "slow down"}

JList == [t |-> "list"]

NotJson == [t |-> "text"]

\* Response bodies with status "error": any error code or none, any message or none.
ErrorBodies ==
    {JDict(("status" :> "error") @@ e @@ m) :
        e \in Opt("error", NamedCodes \cup {"teapot"}), m \in Opt("message", ServerMessages)}

\* Response bodies with another status, or none.
OtherBodies ==
    {JDict(st) : st \in Opt("status", {"success", "pending", "Success", ""})}
      \cup {JDict(("status" :> "success") @@ ("message" :> "m")), JList, NotJson}

Timeout == [t |-> "timeout"]

Response(status, body) == [t |-> "response", status |-> status, body |-> body]

\* What the server does with a request: no answer in time, or a response.
Servers ==
    {Timeout}
      \cup {Response(HTTP_OK, b) : b \in ErrorBodies \cup OtherBodies}
      \cup {Response(st, b) : st \in {404, 503},
                              b \in {NotJson, JDict("status" :> "success"),
                                     JDict(("status" :> "error") @@ ("error" :> "spam_block")
                                             @@ ("message" :> "m"))}}

\* The arguments of a call, with the behaviour of the server it posts to.
Scenarios ==
    [client_id : {"u1"}, messages : MessageLists, metadata : MetadataInputs,
     via_crm : BOOLEAN, server : Servers]

\* The scenarios of the concurrent runs.
ConcScenarios ==
    [client_id : {"u1"},
     messages : {<<>>, <<[cls |-> "TextMessage", data |-> "hello", mime |-> "text/plain"]>>},
     metadata : {PyNone}, via_crm : {FALSE},
     server : {Timeout, Response(HTTP_OK, JDict("status" :> "success")),
               Response(HTTP_OK, JDict(("status" :> "error") @@ ("error" :> "spam_block")
                                         @@ ("message" :> "m"))),
               Response(HTTP_OK, JDict(EmptyDict)),
               Response(503, NotJson)}]

UnexpectedStatusText == "The API returned an unexpected status code."

\* The text BadRequest prefixes to the server's message (the package name is
\* back-quoted in the source).
OutdatedPrefix == "Perhaps the startduckai package is outdated. Error message: "

\* answer[key] where the code reads a field of the response object.
Missing(d, key) == key \notin DOMAIN d

\* The inner match with the spam_block case left out: the code falls to the default.
check_error_code_no_spam_block(d) ==
    IF Missing(d, "error") THEN Raise("KeyError", <<"error">>)
    ELSE IF d["error"] \in NamedCodes /\ Missing(d, "message")
    THEN Raise("KeyError", <<"message">>)
    ELSE CASE d["error"] = "no_reply"            -> Raise("NoReply", <<d["message"]>>)
           [] d["error"] = "in_process"          -> Raise("InProcess", <<d["message"]>>)
           [] d["error"] = "chatbot_not_active"  -> Raise("ChatBotNotActive", <<d["message"]>>)
           [] d["error"] = "chatbot_not_found"   -> Raise("ChatBotNotFound", <<d["message"]>>)
           [] d["error"] = "chatbot_not_trained" -> Raise("ChatBotNotTrained", <<d["message"]>>)
           [] d["error"] = "bad_request"         -> Raise("BadRequest",
                                                          <<OutdatedPrefix, d["message"]>>)
           [] d["error"] = "access_denied"       -> Raise("AccessDenied", <<d["message"]>>)
           [] d["error"] = "rpd_limit_reached"   -> Raise("RPDLimitReached", <<d["message"]>>)
           [] OTHER                              -> Raise("UnknownError", <<UnexpectedStatusText>>)

\* The inner match of _check_for_errors, on answer['error'].
check_error_code(d) ==
    IF Missing(d, "error") THEN Raise("KeyError", <<"error">>)
    ELSE IF d["error"] \in NamedCodes /\ Missing(d, "message")
    THEN Raise("KeyError", <<"message">>)
    ELSE CASE d["error"] = "no_reply"            -> Raise("NoReply", <<d["message"]>>)
           [] d["error"] = "in_process"          -> Raise("InProcess", <<d["message"]>>)
           [] d["error"] = "chatbot_not_active"  -> Raise("ChatBotNotActive", <<d["message"]>>)
           [] d["error"] = "chatbot_not_found"   -> Raise("ChatBotNotFound", <<d["message"]>>)
           [] d["error"] = "chatbot_not_trained" -> Raise("ChatBotNotTrained", <<d["message"]>>)
           [] d["error"] = "bad_request"         -> Raise("BadRequest",
                                                          <<OutdatedPrefix, d["message"]>>)
           [] d["error"] = "access_denied"       -> Raise("AccessDenied", <<d["message"]>>)
           [] d["error"] = "rpd_limit_reached"   -> Raise("RPDLimitReached", <<d["message"]>>)
           [] d["error"] = "spam_block"          -> Raise("SpamBlock", <<d["message"]>>)
           [] OTHER                              -> Raise("UnknownError", <<UnexpectedStatusText>>)

\* SyncAPI._check_for_errors
check_for_errors(answer) ==
    IF answer.t # "dict" THEN Raise("TypeError", <<"indices must be integers">>)
    ELSE IF Missing(answer.v, "status") THEN Raise("KeyError", <<"status">>)
    ELSE CASE answer.v["status"] = "success" -> Return
           [] answer.v["status"] = "error"   -> check_error_code(answer.v)
           [] OTHER                          -> Raise("UnknownError", <<UnexpectedStatusText>>)

\* self._check_for_errors(resp.json()): a body that is not JSON fails to decode.
check_response(body) ==
    IF body = NotJson THEN Raise("JSONDecodeError", <<"Expecting value">>)
    ELSE check_for_errors(body)

\* The url of the POST, as the parts of the f-string.
Url(cfg, via_crm) ==
    <<cfg.api_url, "/integrations", IF via_crm THEN "/crm" ELSE "", "/webhook">>

\* The json of the POST.
Payload(cfg, in) ==
    [api_key      |-> cfg.api_key,
     chatbot_uuid |-> cfg.chatbot_uuid,
     client_id    |-> in.client_id,
     messages     |-> [i \in DOMAIN in.messages |-> serialize(in.messages[i])],
     webhook      |-> cfg.webhook,
     metadata     |-> IF in.metadata # PyNone THEN in.metadata ELSE JDict(EmptyDict)]

\* requests.post / session.post: the request goes on the wire.
Post(c) ==
    /\ posts' = [posts EXCEPT ![c] = @ + 1]
    /\ requests' = requests \cup {[call |-> c, url |-> Url(config, input[c].via_crm),
                                   timeout |-> config.timeout,
                                   json |-> Payload(config, input[c])]}

\* The call ends: its caller gets the result r.
End(c, r) ==
    /\ outcome' = [outcome EXCEPT ![c] = {r}]
    /\ pc' = [pc EXCEPT ![c] = "done"]

\* SyncAPI.send_messages, entry: the check of the list.
Sync_send_messages(c) ==
    /\ pc[c] = "idle"
    /\ api' = [api EXCEPT ![c] = "sync"]
    /\ IF Len(input[c].messages) = 0
       THEN End(c, Raise("BadRequest",
                         <<"List of messages must contain at least one message!">>))
       ELSE /\ pc' = [pc EXCEPT ![c] = "post"]
            /\ UNCHANGED outcome
    /\ UNCHANGED <<config, input, resp, raised, posts, requests, session, sessions,
                   created, msg, parsed>>

\* SyncAPI.send_messages: requests.post(...)
Sync_post(c) ==
    /\ pc[c] = "post" /\ api[c] = "sync"
    /\ Post(c)
    /\ IF input[c].server = Timeout
       THEN /\ End(c, Raise("requests.Timeout", <<"Read timed out.">>))
            /\ UNCHANGED resp
       ELSE /\ resp' = [resp EXCEPT ![c] = {input[c].server}]
            /\ pc' = [pc EXCEPT ![c] = "status"]
            /\ UNCHANGED outcome
    /\ UNCHANGED <<config, api, input, raised, session, sessions, created, msg, parsed>>

\* The status check with a retry: a status other than 200 posts once more.
Sync_check_status_retry(c) ==
    /\ pc[c] = "status" /\ api[c] = "sync"
    /\ \E r \in resp[c] :
          IF r.status # HTTP_OK
          THEN IF posts[c] < 2
               THEN /\ pc' = [pc EXCEPT ![c] = "post"]
                    /\ UNCHANGED outcome
               ELSE End(c, Raise("UnknownError", <<UnexpectedStatusText>>))
          ELSE /\ pc' = [pc EXCEPT ![c] = "check"]
               /\ UNCHANGED outcome
    /\ UNCHANGED <<config, api, input, resp, raised, posts, requests, session, sessions,
                   created, msg, parsed>>

\* SyncAPI.send_messages: if resp.status_code != 200
Sync_check_status(c) ==
    /\ pc[c] = "status" /\ api[c] = "sync"
    /\ \E r \in resp[c] :
          IF r.status # HTTP_OK
          THEN End(c, Raise("UnknownError", <<UnexpectedStatusText>>))
          ELSE /\ pc' = [pc EXCEPT ![c] = "check"]
               /\ UNCHANGED outcome
    /\ UNCHANGED <<config, api, input, resp, raised, posts, requests, session, sessions,
                   created, msg, parsed>>

\* SyncAPI.send_messages: self._check_for_errors(resp.json())
Sync_check_for_errors(c) ==
    /\ pc[c] = "check" /\ api[c] = "sync"
    /\ \E r \in resp[c] : End(c, check_response(r.body))
    /\ UNCHANGED <<config, api, input, resp, raised, posts, requests, session, sessions,
                   created, msg, parsed>>

\* An exception is raised inside the async-with blocks of call c.
Throw(c, e) ==
    /\ raised' = [raised EXCEPT ![c] = {e}]
    /\ pc' = [pc EXCEPT ![c] = "exit"]

\* AsyncAPI.send_messages, entry: async with aiohttp.ClientSession(...) as session
Async_send_messages(c) ==
    /\ pc[c] = "idle"
    /\ api' = [api EXCEPT ![c] = "async"]
    /\ created' = created + 1
    /\ session' = [session EXCEPT ![c] = created + 1]
    /\ sessions' = sessions \cup {created + 1}
    /\ pc' = [pc EXCEPT ![c] = "post"]
    /\ UNCHANGED <<config, input, resp, raised, outcome, posts, requests, msg, parsed>>

\* AsyncAPI.send_messages: async with session.post(...) as resp
Async_post(c) ==
    /\ pc[c] = "post" /\ api[c] = "async"
    /\ Post(c)
    /\ IF input[c].server = Timeout
       THEN /\ Throw(c, Raise("asyncio.TimeoutError", <<>>))
            /\ UNCHANGED resp
       ELSE /\ resp' = [resp EXCEPT ![c] = {input[c].server}]
            /\ pc' = [pc EXCEPT ![c] = "status"]
            /\ UNCHANGED raised
    /\ UNCHANGED <<config, api, input, outcome, session, sessions, created, msg, parsed>>

\* AsyncAPI.send_messages: if resp.status != 200
Async_check_status(c) ==
    /\ pc[c] = "status" /\ api[c] = "async"
    /\ \E r \in resp[c] :
          IF r.status # HTTP_OK
          THEN Throw(c, Raise("UnknownError", <<UnexpectedStatusText>>))
          ELSE /\ pc' = [pc EXCEPT ![c] = "check"]
               /\ UNCHANGED raised
    /\ UNCHANGED <<config, api, input, resp, outcome, posts, requests, session, sessions,
                   created, msg, parsed>>

\* AsyncAPI.send_messages: self._check_for_errors(await resp.json())
Async_check_for_errors(c) ==
    /\ pc[c] = "check" /\ api[c] = "async"
    /\ \E r \in resp[c] :
          LET res == check_response(r.body) IN
          IF res = Return
          THEN /\ pc' = [pc EXCEPT ![c] = "exit"]
               /\ UNCHANGED raised
          ELSE Throw(c, res)
    /\ UNCHANGED <<config, api, input, resp, outcome, posts, requests, session, sessions,
                   created, msg, parsed>>

\* The exit without the scoping: a call that raised leaves its session open.
Async_exit_leak(c) ==
    /\ pc[c] = "exit" /\ api[c] = "async"
    /\ sessions' = IF raised[c] = {} THEN sessions \ {session[c]} ELSE sessions
    /\ End(c, IF raised[c] = {} THEN Return ELSE CHOOSE e \in raised[c] : TRUE)
    /\ UNCHANGED <<config, api, input, resp, raised, posts, requests, session, created,
                   msg, parsed>>

\* AsyncAPI.send_messages: the async-with blocks are left, the session is
\* closed, and the call returns or the exception reaches the caller.
Async_exit(c) ==
    /\ pc[c] = "exit" /\ api[c] = "async"
    /\ sessions' = sessions \ {session[c]}
    /\ End(c, IF raised[c] = {} THEN Return ELSE CHOOSE e \in raised[c] : TRUE)
    /\ UNCHANGED <<config, api, input, resp, raised, posts, requests, session, created,
                   msg, parsed>>

\* The state of the calls `ids` before any is made.
NoCalls(ids) ==
    /\ pc = [c \in ids |-> "idle"]
    /\ api = [c \in ids |-> ""]
    /\ resp = [c \in ids |-> {}]
    /\ raised = [c \in ids |-> {}]
    /\ outcome = [c \in ids |-> {}]
    /\ posts = [c \in ids |-> 0]
    /\ session = [c \in ids |-> 0]
    /\ requests = {} /\ sessions = {} /\ created = 0
    /\ msg = NoMsg /\ parsed = NoParse

\* One client and a side-by-side run: both calls are given the same
\* arguments and meet the same server behaviour, each on either surface.
Init ==
    /\ config \in Configs
    /\ \E s \in Scenarios : input = [c \in SideBySide |-> s]
    /\ NoCalls(SideBySide)

Next ==
    \/ \E c \in DOMAIN pc : Sync_send_messages(c)
    \/ \E c \in DOMAIN pc : Sync_post(c)
    \/ \E c \in DOMAIN pc : Sync_check_status(c)
    \/ \E c \in DOMAIN pc : Sync_check_for_errors(c)
    \/ \E c \in DOMAIN pc : Async_send_messages(c)
    \/ \E c \in DOMAIN pc : Async_post(c)
    \/ \E c \in DOMAIN pc : Async_check_status(c)
    \/ \E c \in DOMAIN pc : Async_check_for_errors(c)
    \/ \E c \in DOMAIN pc : Async_exit(c)

Spec == Init /\ [][Next]_vars

\* One client and concurrent suspending calls, each with its own arguments
\* and server behaviour.
InitConc ==
    /\ config = DefaultConfig
    /\ input \in [CallIds -> ConcScenarios]
    /\ NoCalls(CallIds)

NextConc ==
    \/ \E c \in DOMAIN pc : Async_send_messages(c)
    \/ \E c \in DOMAIN pc : Async_post(c)
    \/ \E c \in DOMAIN pc : Async_check_status(c)
    \/ \E c \in DOMAIN pc : Async_check_for_errors(c)
    \/ \E c \in DOMAIN pc : Async_exit(c)

SpecConc == InitConc /\ [][NextConc]_vars

(***************************************************************************)
(*                 Specifications of the two pure parts                    *)
(***************************************************************************)
IdleSend ==
    /\ config = [api_url |-> "", api_key |-> "", chatbot_uuid |-> "", webhook |-> "",
                 timeout |-> 0]
    /\ pc = <<>> /\ api = <<>> /\ input = <<>> /\ resp = <<>> /\ raised = <<>>
    /\ outcome = <<>> /\ posts = <<>> /\ requests = {} /\ session = <<>>
    /\ sessions = {} /\ created = 0

InitMsg == IdleSend /\ msg = NoMsg /\ parsed = NoParse

NextMsg ==
    \/ \E cls \in MessageClasses \ {"TextMessage"}, data \in DataInputs, mime \in MimeInputs :
           NewMessage(cls, data, mime)
    \/ \E text \in DataInputs : NewTextMessage(text)

SpecMsg == InitMsg /\ [][NextMsg]_vars

InitParse == InitMsg

NextParse == \E body \in BodyInputs : ParseReply(body)

SpecParse == InitParse /\ [][NextParse]_vars

(***************************************************************************)
(*                         Properties of the sends                         *)
(***************************************************************************)
Done(c) == pc[c] = "done"

\* What call c reported to its caller (c has ended).
Result(c) == CHOOSE r \in outcome[c] : TRUE

Failed(c) == Done(c) /\ Result(c).kind # "return"

EmptyList(c) == Len(input[c].messages) = 0

\* Call c received HTTP 200 with a JSON object of status st.
GotStatus(c, st) ==
    \E r \in resp[c] : /\ r.status = HTTP_OK
                       /\ r.body.t = "dict"
                       /\ "status" \in DOMAIN r.body.v
                       /\ r.body.v["status"] = st

\* Call c received HTTP 200 with status "error", an error code and a message.
GotError(c) ==
    /\ GotStatus(c, "error")
    /\ \E r \in resp[c] : {"error", "message"} \subseteq DOMAIN r.body.v

\* The JSON object call c received.
Answer(c) == (CHOOSE r \in resp[c] : TRUE).body.v

\* The dispatch table of the error taxonomy: error code -> failure kind.
DispatchTable(code) ==
    CASE code = "no_reply"            -> "NoReply"
      [] code = "in_process"          -> "InProcess"
      [] code = "chatbot_not_active"  -> "ChatBotNotActive"
      [] code = "chatbot_not_found"   -> "ChatBotNotFound"
      [] code = "chatbot_not_trained" -> "ChatBotNotTrained"
      [] code = "bad_request"         -> "BadRequest"
      [] code = "access_denied"       -> "AccessDenied"
      [] code = "rpd_limit_reached"   -> "RPDLimitReached"
      [] code = "spam_block"          -> "SpamBlock"
      [] OTHER                        -> "UnknownError"

\* C1: on both surfaces a call with an empty message list fails with
\* BadRequest and never issues a POST.
C1_EmptyListNeverPosts ==
    \A c \in DOMAIN pc :
       (api[c] # "" /\ EmptyList(c)) =>
          /\ posts[c] = 0
          /\ \A r \in requests : r.call # c
          /\ Done(c) => Result(c).kind = "BadRequest"

Anomaly(c) ==
    \E r \in resp[c] :
       \/ r.status # HTTP_OK
       \/ /\ r.body.t = "dict"
          /\ \/ "status" \notin DOMAIN r.body.v
             \/ r.body.v["status"] \notin {"success", "error"}

\* C4: a send that meets an HTTP-level anomaly fails with UnknownError.
C4_AnomalyIsUnknownError ==
    \A c \in DOMAIN pc :
       (Done(c) /\ Anomaly(c)) => Result(c).kind = "UnknownError"

\* C5: on the same arguments and the same server response, the blocking and
\* the suspending send end with the same outcome after the same number of
\* requests.
C5_SurfacesAgree ==
    \A c1, c2 \in DOMAIN pc :
       (/\ api[c1] = "sync" /\ api[c2] = "async"
        /\ Done(c1) /\ Done(c2)
        /\ input[c1] = input[c2]
        /\ input[c1].server # Timeout) =>
          /\ Result(c1).kind = Result(c2).kind
          /\ posts[c1] = posts[c2]

\* C8: a call issues at most one POST, and once a failure has been raised in
\* it the call issues no further POST and ends with that very failure
\* reported to its caller.
C8_SingleAttempt ==
    /\ [](\A c \in DOMAIN pc :
             /\ posts[c] <= 1
             /\ Cardinality({r \in requests : r.call = c}) <= 1
             /\ (Done(c) /\ raised[c] # {}) => outcome[c] = raised[c])
    /\ [][\A c \in DOMAIN pc :
             LET failure == raised[c] \cup {o \in outcome[c] : o.kind # "return"} IN
             failure # {} =>
                /\ posts'[c] = posts[c]
                /\ raised'[c] \cup {o \in outcome'[c] : o.kind # "return"} = failure
                /\ pc'[c] \in {"exit", "done"}]_vars

\* Both surfaces have failed after their one POST.
C8_Witness ==
    \E c1, c2 \in DOMAIN pc :
       /\ api[c1] = "sync" /\ api[c2] = "async"
       /\ Failed(c1) /\ Failed(c2)
       /\ posts[c1] = 1 /\ posts[c2] = 1
       /\ Result(c2).kind = "UnknownError"

\* C9: a send returns normally if and only if its list was not empty, it
\* made exactly one POST and the response was HTTP 200 with status "success".
C9_ReturnIffSuccess ==
    \A c \in DOMAIN pc :
       Done(c) =>
          ((Result(c).kind = "return") <=>
              (~EmptyList(c) /\ posts[c] = 1 /\ GotStatus(c, "success")))

\* C10: concurrent suspending sends each create a session of their own, which
\* is open exactly while the call is inside its async-with block, so that no
\* session is open once every call has ended; and the client's configuration
\* never changes.
C10_ScopedSessions ==
    /\ [](/\ \A c1, c2 \in DOMAIN pc :
                (c1 # c2 /\ session[c1] # 0) => session[c1] # session[c2]
          /\ \A c \in DOMAIN pc :
                (session[c] \in sessions) <=> pc[c] \in {"post", "status", "check", "exit"}
          /\ sessions \subseteq {session[c] : c \in DOMAIN pc}
          /\ (\A c \in DOMAIN pc : Done(c)) => sessions = {})
    /\ [][config' = config]_vars

\* Every call has ended, one by a normal return and one by a timeout, and
\* every session created has been closed.
C10_Witness ==
    /\ \A c \in DOMAIN pc : Done(c) /\ api[c] = "async"
    /\ created = Cardinality(DOMAIN pc)
    /\ sessions = {}
    /\ \E c1, c2 \in DOMAIN pc :
          /\ Result(c1).kind = "return"
          /\ Result(c2).kind = "asyncio.TimeoutError"

(***************************************************************************)
(*                   Properties of the message structs                     *)
(***************************************************************************)
\* C2: constructing a message of a class other than TextMessage fails with
\* InvalidMimeType when the lower-cased mimetype is not in the class's list,
\* and yields the message when it is.
C2_MimetypeValidated ==
    msg.cls \notin {"", "TextMessage"} =>
       IF Lower(msg.mime) \in Range(ClassMime(msg.cls))
       THEN msg.exc = {} /\ msg.obj # {}
       ELSE \E e \in msg.exc : e.kind = "InvalidMimeType"

\* C7: a message serializes to {type, mime, data} with the class's tag, the
\* mimetype it was constructed with and its content; a TextMessage has the
\* mimetype text/plain.
C7_SerializesToTypeMimeData ==
    (msg.cls = "TextMessage" \/
        (msg.cls # "" /\ Lower(msg.mime) \in Range(ClassMime(msg.cls)))) =>
       msg.serialized =
          {[type |-> ClassType(msg.cls),
            mime |-> IF msg.cls = "TextMessage" THEN "text/plain" ELSE msg.mime,
            data |-> msg.data]}

(***************************************************************************)
(*                       Properties of parse_reply                         *)
(***************************************************************************)
\* The body has the shape of an object: its answer, when present, is an object.
ObjectShaped(body) == "answer" \in DOMAIN body => body["answer"].t = "dict"

\* A required field of the body is missing.
RequiredMissing(body) ==
    \/ {"answer", "chatbot_uuid", "client_id"} \ DOMAIN body # {}
    \/ {"text", "fbmd", "mdv2"} \ DOMAIN body["answer"].v # {}

====
